---- MODULE Spec2Model ----
(***************************************************************************)
(* Model of the todo-app-1 frontend.                                       *)
(*                                                                         *)
(*  - src/frontend/src/App.jsx (the App component, no authentication):    *)
(*    the React state todos / newTodo / loading and the four asynchronous  *)
(*    handlers fetchTodos, addTodo, toggleTodo, deleteTodo.  A handler is  *)
(*    split at its await: the part that runs in the event (it captures the *)
(*    todos and newTodo of the render it was created in and sends the      *)
(*    request), and the continuation that runs when the fetch settles      *)
(*    (the rest of the try block, or the catch block).                     *)
(*  - src/unnamed/part_000 (the AppContent component of the variant with   *)
(*    authentication): the mount effect and the render function.           *)
(*                                                                         *)
(* The HTTP backend and the AuthContext are not part of the sources; they  *)
(* are modelled from sections 4.1-4.3 and 6 of the specification.          *)
(***************************************************************************)
EXTENDS Integers, Sequences, FiniteSets, TLC

VARIABLES
    todos,        \* useState([])    : the todo list snapshot
    newTodo,      \* useState('')    : the new-todo input text
    loading,      \* useState(false) : the loading flag
    mounted,      \* the mount effect of App has run
    reqs,         \* HTTP calls in flight, each with the closure of its handler
    serverTodos,  \* backend: the stored todos, in creation order
    nextId,       \* backend: the next identifier to assign
    failed,       \* history: some call was rejected or answered with an error
    last,         \* history: the most recent step
    events,       \* history: the number of user events so far
    search,       \* window.location.search, as a sequence of key/value pairs
    search0,      \* history: the search string the page was loaded with
    authUser,     \* AuthContext: user
    authLoading,  \* AuthContext: loading
    loginCalls,   \* history: the tokens AppContent passed to login
    effectRan,    \* the mount effect of AppContent has run
    view          \* what AppContent last rendered

todoVars == <<todos, newTodo, loading, mounted, reqs, serverTodos, nextId,
              failed, last, events>>
authVars == <<search, search0, authUser, authLoading, loginCalls, effectRan,
              view>>
vars == <<todos, newTodo, loading, mounted, reqs, serverTodos, nextId,
          failed, last, events, search, search0, authUser, authLoading, loginCalls,
          effectRan, view>>

----------------------------------------------------------------------------
(* Bounds *)

\* the user types, submits and clicks at most MaxEvents times
MaxEvents == 6
\* at most MaxInflight HTTP calls are in flight at a time
MaxInflight == 2
\* the query string has at most MaxParams parameters
MaxParams == 2

----------------------------------------------------------------------------
(* Values *)

\* texts are sequences of characters; the user types one of these
Inputs == { <<>>, <<" ">>, <<" ", "a">> }

\* the id of a JSON object that has no id field (undefined)
Undefined == 0

\* a todo as the backend serialises it
Todo(id, title, completed) ==
    [id |-> id, title |-> title, completed |-> completed, detail |-> 0]

\* the JSON body of an error answer, {detail: ...}: no id, no title
ErrBody(status) ==
    [id |-> Undefined, title |-> <<>>, completed |-> FALSE, detail |-> status]

RemoveAt(s, i) == SubSeq(s, 1, i - 1) \o SubSeq(s, i + 1, Len(s))

RECURSIVE TrimStart(_)
TrimStart(s) ==
    IF s = <<>> THEN s
    ELSE IF Head(s) = " " THEN TrimStart(Tail(s)) ELSE s

RECURSIVE TrimEnd(_)
TrimEnd(s) ==
    IF s = <<>> THEN s
    ELSE IF s[Len(s)] = " " THEN TrimEnd(SubSeq(s, 1, Len(s) - 1)) ELSE s

\* String.prototype.trim
Trim(s) == TrimEnd(TrimStart(s))

RECURSIVE Filter(_, _)
\* todos.filter(todo => todo.id !== id)
Filter(s, id) ==
    IF s = <<>> THEN <<>>
    ELSE IF Head(s).id # id THEN <<Head(s)>> \o Filter(Tail(s), id)
         ELSE Filter(Tail(s), id)

MapReplaceInverted(s, id, updatedTodo) ==
    [k \in 1..Len(s) |-> IF s[k].id # id THEN updatedTodo ELSE s[k]]

\* todos.map(todo => todo.id === id ? updatedTodo : todo)
MapReplace(s, id, updatedTodo) ==
    [k \in 1..Len(s) |-> IF s[k].id = id THEN updatedTodo ELSE s[k]]

\* an HTTP call in flight, with what its handler captured
Request(op, id, completed) ==
    [op |-> op, id |-> id, completed |-> completed,
     todos |-> todos, newTodo |-> newTodo,
     phase |-> "sent", status |-> 0, body |-> <<>>]

Step(kind, op) == [kind |-> kind, op |-> op]

AuthIdle ==
    /\ search = <<>>
    /\ search0 = <<>>
    /\ authUser = <<>>
    /\ authLoading = FALSE
    /\ loginCalls = <<>>
    /\ effectRan = FALSE
    /\ view = "none"

TodoInit ==
    /\ todos = <<>>
    /\ newTodo = <<>>
    /\ loading = FALSE
    /\ mounted = FALSE
    /\ reqs = <<>>
    /\ serverTodos = <<>>
    /\ nextId = 1
    /\ failed = FALSE
    /\ last = Step("none", "none")
    /\ events = 0

Init == TodoInit /\ AuthIdle

----------------------------------------------------------------------------
(* App of src/frontend/src/App.jsx: the part of each handler that runs in  *)
(* the event                                                               *)

\* useEffect(() => { fetchTodos() }, [])
fetchTodos ==
    /\ ~mounted
    /\ mounted' = TRUE
    /\ reqs' = Append(reqs, Request("list", Undefined, FALSE))
    /\ last' = Step("sent", "list")
    /\ UNCHANGED <<todos, newTodo, loading, serverTodos, nextId, failed>>
    /\ UNCHANGED events
    /\ UNCHANGED authVars

\* onChange={(e) => setNewTodo(e.target.value)}, input disabled={loading}
setNewTodo(v) ==
    /\ mounted
    /\ events < MaxEvents
    /\ events' = events + 1
    /\ ~loading
    /\ v # newTodo
    /\ newTodo' = v
    /\ last' = Step("typed", "none")
    /\ UNCHANGED <<todos, loading, mounted, reqs, serverTodos, nextId, failed>>
    /\ UNCHANGED authVars

addTodoNoTrimGuard ==
    /\ mounted
    /\ events < MaxEvents
    /\ events' = events + 1
    /\ ~loading
    /\ Len(reqs) < MaxInflight
    /\ loading' = TRUE
    /\ reqs' = Append(reqs, Request("add", Undefined, FALSE))
    /\ last' = Step("sent", "add")
    /\ UNCHANGED <<todos, newTodo, mounted, serverTodos, nextId, failed>>
    /\ UNCHANGED authVars

addTodoNoLoadingGate ==
    /\ mounted
    /\ events < MaxEvents
    /\ events' = events + 1
    /\ Len(reqs) < MaxInflight
    /\ IF Trim(newTodo) = <<>>
       THEN /\ last' = Step("returned", "add")
            /\ UNCHANGED <<loading, reqs>>
       ELSE /\ loading' = TRUE
            /\ reqs' = Append(reqs, Request("add", Undefined, FALSE))
            /\ last' = Step("sent", "add")
    /\ UNCHANGED <<todos, newTodo, mounted, serverTodos, nextId, failed>>
    /\ UNCHANGED authVars

\* <form onSubmit={addTodo}>, submit button disabled={loading}
addTodo ==
    /\ mounted
    /\ events < MaxEvents
    /\ events' = events + 1
    /\ ~loading
    /\ Len(reqs) < MaxInflight
    /\ IF Trim(newTodo) = <<>>
       THEN /\ last' = Step("returned", "add")
            /\ UNCHANGED <<loading, reqs>>
       ELSE /\ loading' = TRUE
            /\ reqs' = Append(reqs, Request("add", Undefined, FALSE))
            /\ last' = Step("sent", "add")
    /\ UNCHANGED <<todos, newTodo, mounted, serverTodos, nextId, failed>>
    /\ UNCHANGED authVars

\* onChange={() => toggleTodo(todo.id, todo.completed)} of the k-th row
toggleTodo(k) ==
    /\ mounted
    /\ events < MaxEvents
    /\ events' = events + 1
    /\ Len(reqs) < MaxInflight
    /\ k \in 1..Len(todos)
    /\ reqs' = Append(reqs, Request("toggle", todos[k].id, todos[k].completed))
    /\ last' = Step("sent", "toggle")
    /\ UNCHANGED <<todos, newTodo, loading, mounted, serverTodos, nextId,
                   failed>>
    /\ UNCHANGED authVars

deleteTodoOptimistic(k) ==
    /\ mounted
    /\ events < MaxEvents
    /\ events' = events + 1
    /\ Len(reqs) < MaxInflight
    /\ k \in 1..Len(todos)
    /\ reqs' = Append(reqs, Request("delete", todos[k].id, FALSE))
    /\ todos' = Filter(todos, todos[k].id)
    /\ last' = Step("sent", "delete")
    /\ UNCHANGED <<newTodo, loading, mounted, serverTodos, nextId, failed>>
    /\ UNCHANGED authVars

\* onClick={() => deleteTodo(todo.id)} of the k-th row
deleteTodo(k) ==
    /\ mounted
    /\ events < MaxEvents
    /\ events' = events + 1
    /\ Len(reqs) < MaxInflight
    /\ k \in 1..Len(todos)
    /\ reqs' = Append(reqs, Request("delete", todos[k].id, FALSE))
    /\ last' = Step("sent", "delete")
    /\ UNCHANGED <<todos, newTodo, loading, mounted, serverTodos, nextId,
                   failed>>
    /\ UNCHANGED authVars

----------------------------------------------------------------------------
(* The backend, from sections 4.2, 4.3 and 6 of the specification          *)

RECURSIVE IndexOf(_, _)
\* the position of the todo with this id in s, 0 when there is none
IndexOf(s, id) ==
    IF s = <<>> THEN 0
    ELSE IF s[Len(s)].id = id THEN Len(s)
         ELSE IndexOf(SubSeq(s, 1, Len(s) - 1), id)

\* the answer [status, body] and the new store of the Todo service
HandleList(store) == [status |-> 200, body |-> store, store |-> store, used |-> 0]

HandleCreate(store, id, title) ==
    IF Trim(title) = <<>>
    THEN [status |-> 400, body |-> <<ErrBody(400)>>, store |-> store, used |-> 0]
    ELSE [status |-> 201, body |-> <<Todo(id, title, FALSE)>>,
          store |-> Append(store, Todo(id, title, FALSE)), used |-> 1]

HandleUpdate(store, id, completed) ==
    LET k == IndexOf(store, id) IN
    IF k = 0
    THEN [status |-> 404, body |-> <<ErrBody(404)>>, store |-> store, used |-> 0]
    ELSE LET t == Todo(id, store[k].title, completed) IN
         [status |-> 200, body |-> <<t>>, store |-> [store EXCEPT ![k] = t],
          used |-> 0]

HandleDelete(store, id) ==
    LET k == IndexOf(store, id) IN
    IF k = 0
    THEN [status |-> 404, body |-> <<ErrBody(404)>>, store |-> store, used |-> 0]
    ELSE [status |-> 204, body |-> <<>>, store |-> RemoveAt(store, k), used |-> 0]

Handle(r) ==
    CASE r.op = "list"   -> HandleList(serverTodos)
      [] r.op = "add"    -> HandleCreate(serverTodos, nextId, r.newTodo)
      [] r.op = "toggle" -> HandleUpdate(serverTodos, r.id, ~r.completed)
      [] r.op = "delete" -> HandleDelete(serverTodos, r.id)

\* the backend handles the i-th call in flight and sends its answer
ServerHandle(i) ==
    /\ i \in 1..Len(reqs)
    /\ reqs[i].phase = "sent"
    /\ LET a == Handle(reqs[i]) IN
       /\ serverTodos' = a.store
       /\ nextId' = nextId + a.used
       /\ reqs' = [reqs EXCEPT ![i].phase = "answered",
                               ![i].status = a.status,
                               ![i].body = a.body]
       /\ failed' = (failed \/ a.status >= 400)
    /\ last' = Step("answered", reqs[i].op)
    /\ UNCHANGED <<todos, newTodo, loading, mounted>>
    /\ UNCHANGED events
    /\ UNCHANGED authVars

----------------------------------------------------------------------------
(* App of src/frontend/src/App.jsx: the continuation of each handler after *)
(* its await.  fetch resolves whatever the status of the answer is.        *)

\* const data = await response.json(); setTodos(data)
fetchTodosThen(i) ==
    /\ i \in 1..Len(reqs)
    /\ reqs[i].op = "list"
    /\ reqs[i].phase = "answered"
    /\ todos' = reqs[i].body
    /\ reqs' = RemoveAt(reqs, i)
    /\ last' = Step("resolved", "list")
    /\ UNCHANGED <<newTodo, loading, mounted, serverTodos, nextId, failed>>
    /\ UNCHANGED events
    /\ UNCHANGED authVars

\* setTodos([...todos, data]); setNewTodo(''); finally setLoading(false)
addTodoThen(i) ==
    /\ i \in 1..Len(reqs)
    /\ reqs[i].op = "add"
    /\ reqs[i].phase = "answered"
    /\ todos' = reqs[i].todos \o reqs[i].body
    /\ newTodo' = <<>>
    /\ loading' = FALSE
    /\ reqs' = RemoveAt(reqs, i)
    /\ last' = Step("resolved", "add")
    /\ UNCHANGED <<mounted, serverTodos, nextId, failed>>
    /\ UNCHANGED events
    /\ UNCHANGED authVars

toggleTodoThenInverted(i) ==
    /\ i \in 1..Len(reqs)
    /\ reqs[i].op = "toggle"
    /\ reqs[i].phase = "answered"
    /\ todos' = MapReplaceInverted(reqs[i].todos, reqs[i].id, reqs[i].body[1])
    /\ reqs' = RemoveAt(reqs, i)
    /\ last' = Step("resolved", "toggle")
    /\ UNCHANGED <<newTodo, loading, mounted, serverTodos, nextId, failed>>
    /\ UNCHANGED events
    /\ UNCHANGED authVars

\* setTodos(todos.map(todo => todo.id === id ? updatedTodo : todo))
toggleTodoThen(i) ==
    /\ i \in 1..Len(reqs)
    /\ reqs[i].op = "toggle"
    /\ reqs[i].phase = "answered"
    /\ todos' = MapReplace(reqs[i].todos, reqs[i].id, reqs[i].body[1])
    /\ reqs' = RemoveAt(reqs, i)
    /\ last' = Step("resolved", "toggle")
    /\ UNCHANGED <<newTodo, loading, mounted, serverTodos, nextId, failed>>
    /\ UNCHANGED events
    /\ UNCHANGED authVars

\* setTodos(todos.filter(todo => todo.id !== id)); the answer is not read
deleteTodoThen(i) ==
    /\ i \in 1..Len(reqs)
    /\ reqs[i].op = "delete"
    /\ reqs[i].phase = "answered"
    /\ todos' = Filter(reqs[i].todos, reqs[i].id)
    /\ reqs' = RemoveAt(reqs, i)
    /\ last' = Step("resolved", "delete")
    /\ UNCHANGED <<newTodo, loading, mounted, serverTodos, nextId, failed>>
    /\ UNCHANGED events
    /\ UNCHANGED authVars

\* the fetch rejects (the call or its answer is lost), or, for the handlers
\* that decode the answer, response.json() rejects
Rejects(i) ==
    /\ i \in 1..Len(reqs)
    /\ reqs[i].phase \in {"sent", "answered"}

\* catch (error) { console.error('Error fetching todos:', error) }
fetchTodosCatch(i) ==
    /\ Rejects(i)
    /\ reqs[i].op = "list"
    /\ reqs' = RemoveAt(reqs, i)
    /\ failed' = TRUE
    /\ last' = Step("rejected", "list")
    /\ UNCHANGED <<todos, newTodo, loading, mounted, serverTodos, nextId>>
    /\ UNCHANGED events
    /\ UNCHANGED authVars

addTodoCatchClearsInput(i) ==
    /\ Rejects(i)
    /\ reqs[i].op = "add"
    /\ newTodo' = <<>>
    /\ loading' = FALSE
    /\ reqs' = RemoveAt(reqs, i)
    /\ failed' = TRUE
    /\ last' = Step("rejected", "add")
    /\ UNCHANGED <<todos, mounted, serverTodos, nextId>>
    /\ UNCHANGED events
    /\ UNCHANGED authVars

addTodoCatchNoFinally(i) ==
    /\ Rejects(i)
    /\ reqs[i].op = "add"
    /\ reqs' = RemoveAt(reqs, i)
    /\ failed' = TRUE
    /\ last' = Step("rejected", "add")
    /\ UNCHANGED <<todos, newTodo, loading, mounted, serverTodos, nextId>>
    /\ UNCHANGED events
    /\ UNCHANGED authVars

\* catch (error) { console.error(...) } finally { setLoading(false) }
addTodoCatch(i) ==
    /\ Rejects(i)
    /\ reqs[i].op = "add"
    /\ loading' = FALSE
    /\ reqs' = RemoveAt(reqs, i)
    /\ failed' = TRUE
    /\ last' = Step("rejected", "add")
    /\ UNCHANGED <<todos, newTodo, mounted, serverTodos, nextId>>
    /\ UNCHANGED events
    /\ UNCHANGED authVars

\* catch (error) { console.error('Error updating todo:', error) }
toggleTodoCatch(i) ==
    /\ Rejects(i)
    /\ reqs[i].op = "toggle"
    /\ reqs' = RemoveAt(reqs, i)
    /\ failed' = TRUE
    /\ last' = Step("rejected", "toggle")
    /\ UNCHANGED <<todos, newTodo, loading, mounted, serverTodos, nextId>>
    /\ UNCHANGED events
    /\ UNCHANGED authVars

\* catch (error) { console.error('Error deleting todo:', error) }
deleteTodoCatch(i) ==
    /\ Rejects(i)
    /\ reqs[i].op = "delete"
    /\ reqs' = RemoveAt(reqs, i)
    /\ failed' = TRUE
    /\ last' = Step("rejected", "delete")
    /\ UNCHANGED <<todos, newTodo, loading, mounted, serverTodos, nextId>>
    /\ UNCHANGED events
    /\ UNCHANGED authVars

Next ==
    \/ fetchTodos
    \/ \E v \in Inputs : setNewTodo(v)
    \/ addTodo
    \/ \E k \in 1..Len(todos) : toggleTodo(k)
    \/ \E k \in 1..Len(todos) : deleteTodo(k)
    \/ \E i \in 1..Len(reqs) : ServerHandle(i)
    \/ \E i \in 1..Len(reqs) : fetchTodosThen(i)
    \/ \E i \in 1..Len(reqs) : addTodoThen(i)
    \/ \E i \in 1..Len(reqs) : toggleTodoThen(i)
    \/ \E i \in 1..Len(reqs) : deleteTodoThen(i)
    \/ \E i \in 1..Len(reqs) : fetchTodosCatch(i)
    \/ \E i \in 1..Len(reqs) : addTodoCatch(i)
    \/ \E i \in 1..Len(reqs) : toggleTodoCatch(i)
    \/ \E i \in 1..Len(reqs) : deleteTodoCatch(i)

Spec == Init /\ [][Next]_vars

----------------------------------------------------------------------------
(* AppContent of src/unnamed/part_000                                      *)

\* a query string is a sequence of key=value parameters
Keys == {"token", "next"}
Values == {"", "t1"}
Params == [key : Keys, value : Values]
Searches == UNION {[1..n -> Params] : n \in 0..MaxParams}

\* user of the AuthContext: <<>> is null, <<u>> is the user u
Users == {<<>>, <<"alice">>}

RECURSIVE URLSearchParamsGet(_, _)
\* new URLSearchParams(search).get(name): the value of the first parameter
\* of that name as <<value>>, or <<>> (null) when there is none
URLSearchParamsGet(s, name) ==
    IF s = <<>> THEN <<>>
    ELSE IF Head(s).key = name THEN <<Head(s).value>>
         ELSE URLSearchParamsGet(Tail(s), name)

\* if (token): null and the empty string are falsy
Truthy(token) == token # <<>> /\ token[1] # ""

AppContentRenderIgnoresLoading(user, isLoading) ==
    IF user # <<>> THEN "TodoApp" ELSE "Login"

\* if (loading) return <Loading/>; return user ? <TodoApp /> : <Login />
AppContentRender(user, isLoading) ==
    IF isLoading THEN "Loading"
    ELSE IF user # <<>> THEN "TodoApp" ELSE "Login"

AuthInit ==
    /\ TodoInit
    /\ search \in Searches
    /\ search0 = search
    /\ authUser \in Users
    /\ authLoading \in BOOLEAN
    /\ loginCalls = <<>>
    /\ effectRan = FALSE
    /\ view = AppContentRender(authUser, authLoading)

\* login(token) of the AuthContext: the context starts resolving the user
login(token) ==
    /\ loginCalls' = Append(loginCalls, token)
    /\ authLoading' = TRUE
    /\ authUser' = authUser

AppContentEffectKeepsUrl ==
    /\ ~effectRan
    /\ effectRan' = TRUE
    /\ LET token == URLSearchParamsGet(search, "token") IN
       IF Truthy(token)
       THEN /\ login(token[1])
            /\ search' = search
       ELSE UNCHANGED <<loginCalls, authLoading, authUser, search>>
    /\ view' = AppContentRender(authUser', authLoading')
    /\ UNCHANGED search0
    /\ UNCHANGED todoVars

\* the mount effect: if (token) { login(token); replaceState(..., pathname) }
AppContentEffect ==
    /\ ~effectRan
    /\ effectRan' = TRUE
    /\ LET token == URLSearchParamsGet(search, "token") IN
       IF Truthy(token)
       THEN /\ login(token[1])
            /\ search' = <<>>
       ELSE UNCHANGED <<loginCalls, authLoading, authUser, search>>
    /\ view' = AppContentRender(authUser', authLoading')
    /\ UNCHANGED search0
    /\ UNCHANGED todoVars

\* the AuthContext finishes resolving the user: verify succeeded or failed
AuthSettles(u) ==
    /\ authLoading
    /\ authLoading' = FALSE
    /\ authUser' = u
    /\ view' = AppContentRender(authUser', authLoading')
    /\ UNCHANGED <<search, search0, loginCalls, effectRan>>
    /\ UNCHANGED todoVars

\* logout: the client discards its token
logout ==
    /\ ~authLoading
    /\ authUser # <<>>
    /\ authUser' = <<>>
    /\ view' = AppContentRender(authUser', authLoading)
    /\ UNCHANGED <<search, search0, authLoading, loginCalls, effectRan>>
    /\ UNCHANGED todoVars

AuthNext ==
    \/ AppContentEffect
    \/ \E u \in Users : AuthSettles(u)
    \/ logout

AuthSpec == AuthInit /\ [][AuthNext]_vars

----------------------------------------------------------------------------
(* Properties *)

\* the positions of the add calls in flight
AddsInFlight(rs) == {i \in 1..Len(rs) : rs[i].op = "add"}

\* the catch block of the handler of the i-th call runs
CatchStep(i) ==
    \/ fetchTodosCatch(i)
    \/ addTodoCatch(i)
    \/ toggleTodoCatch(i)
    \/ deleteTodoCatch(i)

NoDuplicateIds(s) ==
    \A j, k \in 1..Len(s) : j # k => s[j].id # s[k].id

\* C1, as stated: when a handler whose HTTP call failed has finished, the
\* todo list snapshot and the input text are exactly what they were before
\* the handler started, and no retry request is issued.
C1_StateAsBeforeHandlerStarted ==
    [][\A i \in 1..Len(reqs) :
          CatchStep(i) => /\ todos' = reqs[i].todos
                          /\ newTodo' = reqs[i].newTodo
                          /\ reqs' = RemoveAt(reqs, i)]_vars

\* C1, amended: the catch block of fetchTodos, addTodo, toggleTodo and
\* deleteTodo changes neither the todo list snapshot nor the input text, and
\* issues no request: the calls in flight after it are those before it
\* without the failed one.
C1_CatchLeavesStateUnchanged ==
    [][\A i \in 1..Len(reqs) :
          CatchStep(i) => /\ todos' = todos
                          /\ newTodo' = newTodo
                          /\ reqs' = RemoveAt(reqs, i)]_vars

\* an add failed while the list and the input were not empty
C1_Witness ==
    /\ last = Step("rejected", "add")
    /\ todos # <<>>
    /\ newTodo # <<>>
    /\ reqs # <<>>

\* C2: when the backend answers an add, toggle or delete call with an error
\* status, the continuation of that call leaves the todo list snapshot
\* unchanged.
C2_ErrorStatusLeavesListUnchanged ==
    [][\A i \in 1..Len(reqs) :
          (/\ reqs[i].phase = "answered"
           /\ reqs[i].status >= 400
           /\ (addTodoThen(i) \/ toggleTodoThen(i) \/ deleteTodoThen(i)))
          => todos' = todos]_vars

\* C3: at most one add call is in flight in every reachable state, and no
\* step taken while loading is true starts another one.
C3_LoadingGatesAdd ==
    /\ [](Cardinality(AddsInFlight(reqs)) <= 1)
    /\ [][loading =>
            Cardinality(AddsInFlight(reqs')) <= Cardinality(AddsInFlight(reqs))]_vars

\* an add is in flight, already answered, next to another call, and the user
\* has acted since it was sent
C3_Witness ==
    /\ loading
    /\ Len(reqs) = MaxInflight
    /\ reqs[1].op = "add"
    /\ reqs[1].phase = "answered"
    /\ last.kind = "sent"

HasTokenParam(s) == \E k \in 1..Len(s) : s[k].key = "token"

\* C5, as stated: once the mount effect has run, if the URL carried a token
\* parameter login was called exactly once, with that token, and the query
\* string is gone; if not, login was not called and the URL is unchanged.
C5_AnyTokenParam ==
    effectRan =>
        IF HasTokenParam(search0)
        THEN /\ loginCalls = URLSearchParamsGet(search0, "token")
             /\ search = <<>>
        ELSE /\ loginCalls = <<>>
             /\ search = search0

\* C5, amended: once the mount effect has run, if the first token parameter
\* of the URL is not empty, login was called exactly once, with it, and the
\* query string is gone; if the URL carries no token parameter or the first
\* one is empty, login was not called and the URL is unchanged.  Before the
\* effect has run nothing has been called or changed.
C5_NonEmptyToken ==
    /\ ~effectRan => (loginCalls = <<>> /\ search = search0)
    /\ effectRan =>
        IF Truthy(URLSearchParamsGet(search0, "token"))
        THEN /\ loginCalls = URLSearchParamsGet(search0, "token")
             /\ search = <<>>
        ELSE /\ loginCalls = <<>>
             /\ search = search0

\* the effect found a token next to another parameter and cleaned the URL
C5_Witness ==
    /\ effectRan
    /\ Len(search0) = 2
    /\ search0[1].key = "next"
    /\ loginCalls = <<"t1">>
    /\ search = <<>>

\* C6: TodoApp is rendered only when loading is false and user is not null;
\* while loading is true neither Login nor TodoApp is rendered; when loading
\* is false and user is null, Login is rendered.
C6_TodoViewProtected ==
    /\ view = "TodoApp" => (~authLoading /\ authUser # <<>>)
    /\ authLoading => view \notin {"Login", "TodoApp"}
    /\ (~authLoading /\ authUser = <<>>) => view = "Login"

\* after a login from the URL the user was resolved and TodoApp is shown
C6_Witness ==
    /\ view = "TodoApp"
    /\ effectRan
    /\ loginCalls # <<>>

\* C7: when every call has succeeded and none is in flight, the todo list
\* snapshot is the backend's list: the same todos, with the backend's title
\* and completed value, in creation order.
C7_ListReflectsServer ==
    (mounted /\ reqs = <<>> /\ ~failed) => todos = serverTodos

\* C8: loading is true exactly while an add call is in flight: it is false
\* again as soon as the call has completed, by its answer or by its failure.
C8_LoadingIffAddInFlight ==
    loading <=> AddsInFlight(reqs) # {}

\* an add has failed and the form is enabled again
C8_Witness ==
    /\ last = Step("rejected", "add")
    /\ ~loading
    /\ Trim(newTodo) # <<>>

\* C9: a submit while the input is empty or only whitespace sends no call
\* and leaves the list, the input and the loading flag unchanged.
C9_BlankSubmitChangesNothing ==
    [][(addTodo /\ Trim(newTodo) = <<>>) =>
          UNCHANGED <<todos, newTodo, loading, reqs>>]_vars

\* the form was submitted with only whitespace in the input
C9_Witness ==
    /\ last = Step("returned", "add")
    /\ newTodo # <<>>
    /\ Trim(newTodo) = <<>>

\* C10: as long as every call has succeeded, no two entries of the todo list
\* snapshot have the same id.
C10_NoDuplicateIds ==
    ~failed => NoDuplicateIds(todos)

\* two todos are listed after answers that arrived while other calls were in
\* flight, and the list differs from the backend's
C10_Witness ==
    /\ ~failed
    /\ Len(todos) >= 2
    /\ reqs = <<>>
    /\ todos # serverTodos
    /\ last.kind = "resolved"

====
